---- MODULE Spec2Model ----
(***************************************************************************)
(* State-machine model of server.js: an Express application with the       *)
(* routes POST /register, POST /login, POST /logout, GET /admin and        *)
(* GET /user, a Prisma user table, bcrypt password hashes and JWT bearer   *)
(* tokens.  `req` is the request being served, from the moment it is         *)
(* received until the client has read the response; handlers are split at  *)
(* their await points and middleware chains at each next(), and the clock  *)
(* may advance in between.  Requests are taken one at a time.              *)
(***************************************************************************)
EXTENDS Integers, Sequences, FiniteSets, TLC

\* ---------------------------------------------------------------- bounds
MaxClock == 3602

\* ------------------------------------------------------------- constants
\* expiresIn: "1h", in the seconds jsonwebtoken counts in
ExpiresIn == 3600

\* process.env.JWT_SECRET, and a key the server does not hold
JWT_SECRET == "secret"
OtherKey == "other"

\* the value of a body field or header the request does not carry
undefined == "<undefined>"

Emails == {"a@x.com", "b@x.com"}
Passwords == {"pw1", "pw2"}
Salts == {"s1", "s2"}
EmailInputs == Emails \cup {undefined, ""}
PasswordInputs == Passwords \cup {undefined, ""}
RoleInputs == {undefined, "", "user", "admin"}
ClockSteps == {1799, 1801}
\* what an async handler's rejected promise comes to: no response at all
\* (status 0) or the framework's 500
ThrowOutcomes == {0, 500}

\* users: the rows of the user table.  now: the clock, in seconds.
\* req: the request being served.  held: the token the client holds, if any.
\* loggedOut: whether the client has called POST /logout since it got that token.
VARIABLES users, now, held, loggedOut, req

vars == <<users, now, held, loggedOut, req>>

\* ------------------------------------------------------------ JavaScript
\* !v for the values a JSON body field takes here
Falsy(v) == v \in {undefined, ""}

\* ---------------------------------------------------------------- bcrypt
\* bcrypt.hash(password, 10): a digest of the password under a fresh salt
Hash(password, salt) == [salt |-> salt, of |-> password]

\* bcrypt.compare(password, hash)
Compare(password, hash) == hash.of = password

\* ------------------------------------------------------------------- jwt
\* the characters of an Authorization header: a space, a piece of text, or
\* a signed token
SP == [kind |-> "sp", userId |-> 0, role |-> "", iat |-> 0, exp |-> 0, key |-> ""]
Word(text) ==
  [kind |-> "word", userId |-> 0, role |-> text, iat |-> 0, exp |-> 0, key |-> ""]

\* jwt.sign({userId, role}, key, {expiresIn}) at time t
Sign(userId, role, key, expiresIn, t) ==
  [kind |-> "jwt", userId |-> userId, role |-> role, iat |-> t,
   exp |-> t + expiresIn, key |-> key]

\* jwt.verify(token, JWT_SECRET) at time t: does it report an error?
VerifyErr(token, t) ==
  \/ Len(token) # 1
  \/ token[1].kind # "jwt"
  \/ token[1].key # JWT_SECRET
  \/ t >= token[1].exp

\* the decoded payload jwt.verify hands to its callback
Payload(token) ==
  [userId |-> token[1].userId, role |-> token[1].role,
   iat |-> token[1].iat, exp |-> token[1].exp]

\* String.prototype.split(" "): the pieces between the spaces, empty ones kept
RECURSIVE Split(_)
Split(h) ==
  IF \A i \in 1..Len(h) : h[i] # SP THEN <<h>>
  ELSE LET k == CHOOSE i \in 1..Len(h) :
                  h[i] = SP /\ \A j \in 1..(i - 1) : h[j] # SP
       IN <<SubSeq(h, 1, k - 1)>> \o Split(SubSeq(h, k + 1, Len(h)))

\* req.headers.authorization?.split(" ")[1]; <<>> stands for undefined and ""
TokenOf(hasHeader, header) ==
  IF ~hasHeader THEN <<>>
  ELSE IF Len(Split(header)) < 2 THEN <<>>
  ELSE Split(header)[2]

\* ------------------------------------------------------------ user table
\* prisma.user.findUnique({ where: { email } })
FindUnique(email) == {u \in users : u.email = email}

\* the user table's schema: the id the table gives a new row, and its rule
\* that no two rows have the same email
NextId == Cardinality(users) + 1

EmailTaken(email) == \E u \in users : u.email = email

\* the row prisma.user.create stores for { email, password, role }
NewUser(email, hash, role) ==
  [id |-> NextId, email |-> email, password |-> hash, role |-> role]

\* -------------------------------------------------------------- requests
IdleReq ==
  [route |-> "none", pc |-> "idle", email |-> undefined, password |-> undefined,
   role |-> undefined, hasHeader |-> FALSE, header |-> <<>>, idx |-> 0,
   status |-> 0, sent |-> 0, text |-> "", json |-> {}, token |-> {},
   reqUser |-> {}, clockTimestamp |-> 0, ran |-> <<>>,
   bcryptCalls |-> 0, storeCalls |-> 0]

\* res.status(code).send(text) / res.sendStatus(code) / res.json(...); a
\* second send on the same response throws and leaves the first one standing
Send(r, code, text) ==
  IF r.sent > 0 THEN [r EXCEPT !.sent = r.sent + 1]
  ELSE [r EXCEPT !.status = code, !.sent = 1, !.text = text]

\* an exception escaping a handler or middleware
Throw(r, outcome) ==
  IF outcome = 0 THEN r ELSE Send(r, outcome, "Internal Server Error")

\* next()
CallNext(r) == [r EXCEPT !.idx = r.idx + 1]

\* ---------------------------------------------------------- POST /register
\* up to the first await: the body is read and checked, the hash is started
Register(r) ==
  IF Falsy(r.email) \/ Falsy(r.password)
  THEN [Send(r, 400, "Email and password are required") EXCEPT !.pc = "done"]
  ELSE [r EXCEPT !.pc = "hashing", !.bcryptCalls = r.bcryptCalls + 1]

\* mutant: the role of the request body is ignored
RoleOrDefault_AlwaysUser(role) == "user"

\* role: role || "user"
RoleOrDefault(role) == IF Falsy(role) THEN "user" ELSE role

\* the row prisma.user.create adds; none when the email is taken and it throws
Created(r, salt) ==
  IF EmailTaken(r.email) THEN {}
  ELSE {NewUser(r.email, Hash(r.password, salt), RoleOrDefault(r.role))}

\* mutant: the create is not wrapped in try/catch
RegisterCreate_NoCatch(r, salt) ==
  LET c == [r EXCEPT !.pc = "done", !.storeCalls = r.storeCalls + 1]
  IN IF Created(r, salt) # {}
     THEN [Send(c, 201, "") EXCEPT !.json = Created(r, salt)]
     ELSE c

\* after the hash: the create, then the response
RegisterCreate(r, salt) ==
  LET c == [r EXCEPT !.pc = "done", !.storeCalls = r.storeCalls + 1]
  IN IF Created(r, salt) # {}
     THEN [Send(c, 201, "") EXCEPT !.json = Created(r, salt)]
     ELSE Send(c, 400, "User already exists")

\* ------------------------------------------------------------- POST /login
\* up to the first await: the body is read, the lookup is started
Login(r) == [r EXCEPT !.pc = "finding", !.storeCalls = r.storeCalls + 1]

\* mutant: the negation of the comparison is lost
LoginFound_Inverted(r, t, outcome) ==
  LET d == [r EXCEPT !.pc = "done"]
      found == FindUnique(r.email)
  IN IF r.email = undefined THEN Throw(d, outcome)
     ELSE IF found = {} THEN Send(d, 401, "Invalid email or password")
     ELSE LET user == CHOOSE u \in found : TRUE
              c == [d EXCEPT !.bcryptCalls = d.bcryptCalls + 1]
          IN IF r.password = undefined THEN Throw(c, outcome)
             ELSE IF Compare(r.password, user.password)
             THEN Send(c, 401, "Invalid email or password")
             ELSE [Send(c, 200, "") EXCEPT
                     !.token = {Sign(user.id, user.role, JWT_SECRET, ExpiresIn, t)}]

\* mutant: an unknown email gets an answer of its own
LoginFound_Distinguish(r, t, outcome) ==
  LET d == [r EXCEPT !.pc = "done"]
      found == FindUnique(r.email)
  IN IF r.email = undefined THEN Throw(d, outcome)
     ELSE IF found = {} THEN Send(d, 404, "User not found")
     ELSE LET user == CHOOSE u \in found : TRUE
              c == [d EXCEPT !.bcryptCalls = d.bcryptCalls + 1]
          IN IF r.password = undefined THEN Throw(c, outcome)
             ELSE IF ~Compare(r.password, user.password)
             THEN Send(c, 401, "Invalid email or password")
             ELSE [Send(c, 200, "") EXCEPT
                     !.token = {Sign(user.id, user.role, JWT_SECRET, ExpiresIn, t)}]

\* mutant: the token is signed for two hours
LoginFound_LongLived(r, t, outcome) ==
  LET d == [r EXCEPT !.pc = "done"]
      found == FindUnique(r.email)
  IN IF r.email = undefined THEN Throw(d, outcome)
     ELSE IF found = {} THEN Send(d, 401, "Invalid email or password")
     ELSE LET user == CHOOSE u \in found : TRUE
              c == [d EXCEPT !.bcryptCalls = d.bcryptCalls + 1]
          IN IF r.password = undefined THEN Throw(c, outcome)
             ELSE IF ~Compare(r.password, user.password)
             THEN Send(c, 401, "Invalid email or password")
             ELSE [Send(c, 200, "") EXCEPT
                     !.token = {Sign(user.id, user.role, JWT_SECRET,
                                     2 * ExpiresIn, t)}]

\* after the lookup: the comparison, then the token
LoginFound(r, t, outcome) ==
  LET d == [r EXCEPT !.pc = "done"]
      found == FindUnique(r.email)
  IN IF r.email = undefined THEN Throw(d, outcome)
     ELSE IF found = {} THEN Send(d, 401, "Invalid email or password")
     ELSE LET user == CHOOSE u \in found : TRUE
              c == [d EXCEPT !.bcryptCalls = d.bcryptCalls + 1]
          IN IF r.password = undefined THEN Throw(c, outcome)
             ELSE IF ~Compare(r.password, user.password)
             THEN Send(c, 401, "Invalid email or password")
             ELSE [Send(c, 200, "") EXCEPT
                     !.token = {Sign(user.id, user.role, JWT_SECRET, ExpiresIn, t)}]

\* ------------------------------------------------------------ POST /logout
Logout(r) == [Send(r, 200, "OK") EXCEPT !.pc = "done"]

\* -------------------------------------------------------------- middleware
\* mutant: the two failure statuses are swapped
AuthenticateJWT_Swapped(r, t) ==
  LET token == TokenOf(r.hasHeader, r.header)
      v == [r EXCEPT !.clockTimestamp = t]
  IN IF token # <<>>
     THEN IF VerifyErr(token, t) THEN Send(v, 401, "Unauthorized")
          ELSE CallNext([v EXCEPT !.reqUser = {Payload(token)}])
     ELSE Send(v, 403, "Forbidden")

\* the token is verified, its claims become req.user
AuthenticateJWT(r, t) ==
  LET token == TokenOf(r.hasHeader, r.header)
      v == [r EXCEPT !.clockTimestamp = t]
  IN IF token # <<>>
     THEN IF VerifyErr(token, t) THEN Send(v, 403, "Forbidden")
          ELSE CallNext([v EXCEPT !.reqUser = {Payload(token)}])
     ELSE Send(v, 401, "Unauthorized")

\* mutant: the role is not looked at
AuthorizeAdmin_NoRoleCheck(r) ==
  IF r.reqUser = {} THEN Send(r, 500, "Internal Server Error") ELSE CallNext(r)

\* req.user.role is compared with "admin"; without req.user the read throws
AuthorizeAdmin(r) ==
  IF r.reqUser = {} THEN Send(r, 500, "Internal Server Error")
  ELSE IF \E u \in r.reqUser : u.role # "admin" THEN Send(r, 403, "Forbidden")
  ELSE CallNext(r)

AdminHandler(r) == Send(r, 200, "Welcome Admin")

UserHandler(r) == Send(r, 200, "Welcome User")

\* mutant: the admin route checks the role before the token
Chain_AuthorizeFirst(route) ==
  IF route = "admin" THEN <<"authorizeAdmin", "authenticateJWT", "adminHandler">>
  ELSE <<"authenticateJWT", "userHandler">>

\* app.get(path, ...): the functions registered for a route, in order
Chain(route) ==
  IF route = "admin" THEN <<"authenticateJWT", "authorizeAdmin", "adminHandler">>
  ELSE <<"authenticateJWT", "userHandler">>

\* one function of the chain runs on the request
RunStep(r, t) ==
  LET name == Chain(r.route)[r.idx]
      a == [r EXCEPT !.ran = Append(r.ran, name)]
      b == IF name = "authenticateJWT" THEN AuthenticateJWT(a, t)
           ELSE IF name = "authorizeAdmin" THEN AuthorizeAdmin(a)
           ELSE IF name = "adminHandler" THEN AdminHandler(a)
           ELSE UserHandler(a)
  IN IF b.idx = r.idx \/ b.idx > Len(Chain(r.route))
     THEN [b EXCEPT !.pc = "done"]
     ELSE b

\* ------------------------------------------------------------- the client
\* the Authorization headers a client sends: none, malformed ones, the token
\* it holds (also altered, or under another scheme), and forged tokens
Forged(toks) ==
  {Sign(1, "admin", OtherKey, ExpiresIn, 0)} \cup
  {[k EXCEPT !.role = "admin", !.key = OtherKey] : k \in toks}

Headers(toks) ==
  {<<>>, <<Word("Bearer")>>, <<Word("Bearer"), SP>>,
   <<Word("Bearer"), SP, Word("garbage")>>}
  \cup {<<Word("Bearer"), SP, k>> : k \in toks \cup Forged(toks)}
  \cup {<<Word("Bearer"), SP, SP, k>> : k \in toks}
  \cup {<<k>> : k \in toks}
  \cup {<<Word("Basic"), SP, k>> : k \in toks}
  \cup {<<Word("Bearer"), SP, k, SP, Word("x")>> : k \in toks}

Init ==
  /\ users = {}
  /\ now = 0
  /\ held = {}
  /\ loggedOut = FALSE
  /\ req = IdleReq

\* time passes
Tick ==
  /\ \E d \in ClockSteps :
       /\ now + d <= MaxClock
       /\ now' = now + d
  /\ UNCHANGED <<users, held, loggedOut, req>>

\* POST /register arrives
RegisterStart ==
  /\ req.pc = "idle"
  /\ \E e \in EmailInputs, p \in PasswordInputs, ro \in RoleInputs :
       req' = Register([IdleReq EXCEPT !.route = "register", !.email = e,
                                       !.password = p, !.role = ro])
  /\ UNCHANGED <<users, now, held, loggedOut>>

\* the hash is ready
RegisterFinish ==
  /\ req.route = "register"
  /\ req.pc = "hashing"
  /\ \E salt \in Salts :
       /\ req' = RegisterCreate(req, salt)
       /\ users' = users \cup Created(req, salt)
  /\ UNCHANGED <<now, held, loggedOut>>

\* POST /login arrives
LoginStart ==
  /\ req.pc = "idle"
  /\ \E e \in EmailInputs, p \in PasswordInputs :
       req' = Login([IdleReq EXCEPT !.route = "login", !.email = e,
                                    !.password = p])
  /\ UNCHANGED <<users, now, held, loggedOut>>

\* the lookup is back
LoginFinish ==
  /\ req.route = "login"
  /\ req.pc = "finding"
  /\ \E outcome \in ThrowOutcomes :
       req' = LoginFound(req, now, outcome)
  /\ UNCHANGED <<users, now, held, loggedOut>>

\* POST /logout arrives and is answered
LogoutRequest ==
  /\ req.pc = "idle"
  /\ req' = Logout([IdleReq EXCEPT !.route = "logout"])
  /\ loggedOut' = (held # {})
  /\ UNCHANGED <<users, now, held>>

\* GET /admin or GET /user arrives, without or with an Authorization header
GetStart ==
  /\ req.pc = "idle"
  /\ \E route \in {"admin", "user"}, hasHeader \in BOOLEAN :
       \E h \in IF hasHeader THEN Headers(held) ELSE {<<>>} :
         req' = [IdleReq EXCEPT !.route = route, !.pc = "chain", !.idx = 1,
                                !.hasHeader = hasHeader, !.header = h]
  /\ UNCHANGED <<users, now, held, loggedOut>>

\* the next function of the route's chain runs
GetStep ==
  /\ req.pc = "chain"
  /\ req' = RunStep(req, now)
  /\ UNCHANGED <<users, now, held, loggedOut>>

\* the client has read the response (or given up waiting for one) and keeps
\* the token it was given, or not
Close ==
  /\ req.pc = "done"
  /\ req' = IdleReq
  /\ held' \in {held, req.token}
  /\ loggedOut' = (loggedOut /\ held' = held)
  /\ UNCHANGED <<users, now>>

Next ==
  \/ Tick
  \/ RegisterStart
  \/ RegisterFinish
  \/ LoginStart
  \/ LoginFinish
  \/ LogoutRequest
  \/ GetStart
  \/ GetStep
  \/ Close

Spec == Init /\ [][Next]_vars

\* ================================================================= claims
\* the request being served is a GET on one of the two protected routes
IsGet == req.route \in {"admin", "user"}

\* the second space-separated field of the request's Authorization header,
\* where a bearer token goes; <<>> when there is none
BearerField ==
  IF req.hasHeader /\ Len(Split(req.header)) >= 2 THEN Split(req.header)[2]
  ELSE <<>>

\* k is a token signed with the server's secret less than an hour before t
GoodToken(k, t) ==
  k.kind = "jwt" /\ k.key = JWT_SECRET /\ t < k.iat + ExpiresIn

\* the request carries exactly such a token
CarriesGoodToken ==
  Len(BearerField) = 1 /\ GoodToken(BearerField[1], req.clockTimestamp)

\* C1: a finished request with a validly signed, unexpired token gets 200 on
\* /admin exactly when the token's role is "admin" and 403 otherwise, and
\* gets 200 on /user whatever the role.
C1_RoleGate ==
  (IsGet /\ req.pc = "done" /\ CarriesGoodToken) =>
    IF req.route = "admin"
    THEN IF BearerField[1].role = "admin" THEN req.status = 200
         ELSE req.status = 403
    ELSE req.status = 200

C1_Witness ==
  /\ req.route = "admin" /\ req.pc = "done" /\ CarriesGoodToken
  /\ BearerField[1].role = "user"
  /\ req.status = 403

\* C2: on a protected route the functions run in the order authenticate,
\* (authorize,) handler; nothing runs after authenticate unless the token was
\* verified, the admin handler runs only for role "admin", a response is sent
\* only once and after authenticate has run, 200 only by the handler, and the
\* function that sends a response is the last one to run.
C2_Order ==
  IsGet =>
    LET full == IF req.route = "admin"
                THEN <<"authenticateJWT", "authorizeAdmin", "adminHandler">>
                ELSE <<"authenticateJWT", "userHandler">>
        n == Len(req.ran)
    IN /\ n <= Len(full)
       /\ req.ran = SubSeq(full, 1, n)
       /\ req.sent <= 1
       /\ req.sent = 1 => req.pc = "done"
       /\ req.status # 0 => n >= 1
       /\ n >= 2 => req.reqUser # {}
       /\ (req.route = "admin" /\ n = 3) => \A u \in req.reqUser : u.role = "admin"
       /\ req.status = 200 <=> n = Len(full)
       /\ req.pc = "done" => req.sent = 1

C2_Witness ==
  /\ req.route = "admin" /\ req.pc = "done"
  /\ req.ran = <<"authenticateJWT", "authorizeAdmin">>
  /\ req.status = 403 /\ req.sent = 1

\* C3: once authenticateJWT has run, it has answered 401 exactly when the
\* header is absent or has no token field, and 403 exactly when there is a
\* token that is not validly signed or is expired; in both cases req.user is
\* not set and next() was not called.
C3_AuthFailures ==
  (IsGet /\ Len(req.ran) >= 1) =>
    LET none == BearerField = <<>>
        bad == ~none /\ ~CarriesGoodToken
        rejected == req.pc = "done" /\ req.ran = <<"authenticateJWT">>
    IN /\ (rejected /\ req.status = 401) <=> none
       /\ (rejected /\ req.status = 403) <=> bad
       /\ (none \/ bad) => (req.reqUser = {} /\ req.idx = 1)

\* a token of the server's own, presented after it expired, is answered 403
C3_Witness ==
  /\ IsGet /\ req.pc = "done" /\ req.ran = <<"authenticateJWT">>
  /\ req.status = 403
  /\ Len(BearerField) = 1 /\ BearerField[1].key = JWT_SECRET
  /\ req.clockTimestamp >= BearerField[1].exp

\* C4: a POST /register or POST /login without email or password ends
\* answered 400, having called neither bcrypt nor the user table.
C4_MissingFieldsRejected ==
  (/\ req.route \in {"register", "login"}
   /\ Falsy(req.email) \/ Falsy(req.password)
   /\ req.pc = "done")
  => (req.status = 400 /\ req.bcryptCalls = 0 /\ req.storeCalls = 0)

\* C5: a registration whose email is taken is answered 400 and leaves the
\* user table as it was, whatever password and role it carries; there is
\* never more than one row for an email.
C5_Unique == \A u, v \in users : u.email = v.email => u = v

C5_Step ==
  (/\ req.route = "register" /\ req.pc = "hashing" /\ req'.pc = "done"
   /\ \E u \in users : u.email = req.email)
  => (req'.status = 400 /\ users' = users)

C5_DuplicateRejected == []C5_Unique /\ [][C5_Step]_vars

C5_Witness ==
  /\ req.route = "register" /\ req.pc = "done" /\ req.status = 400
  /\ req.role = "admin"
  /\ \E u \in users :
       u.email = req.email /\ u.password.of # req.password /\ u.role = "user"
  /\ Cardinality(users) = 1

\* C6: a registration with a non-empty email and password is hashed and, its
\* email being free, answered 201 with a row stored for it; rows stay as they
\* are; and a login with the email and password of a row is answered 200
\* with a token.
C6_Accept ==
  (/\ req.pc = "idle" /\ req'.route = "register"
   /\ ~Falsy(req'.email) /\ ~Falsy(req'.password))
  => req'.pc = "hashing"

C6_Create ==
  (/\ req.route = "register" /\ req.pc = "hashing" /\ req'.pc = "done"
   /\ ~\E u \in users : u.email = req.email)
  => /\ req'.status = 201
     /\ \E u \in users', salt \in Salts :
          u.email = req.email /\ u.password = Hash(req.password, salt)

C6_Keep == \A u \in users : u \in users'

C6_LoginStep ==
  (/\ req.route = "login" /\ req.pc = "finding" /\ req'.pc = "done"
   /\ \E u \in users, salt \in Salts :
        u.email = req.email /\ u.password = Hash(req.password, salt))
  => (req'.status = 200 /\ req'.token # {})

C6_RegisterThenLogin ==
  [][C6_Accept /\ C6_Create /\ C6_Keep /\ C6_LoginStep]_vars

C6_Witness ==
  /\ req.route = "login" /\ req.pc = "done" /\ req.status = 200
  /\ req.token # {}
  /\ Cardinality(users) = 2
  /\ loggedOut

\* C7: a login with a registered email and a wrong password has the same
\* status and body as one with an unregistered email: 401, the same text, no
\* token (both for the logins the server would take when it is ready for a
\* request and for the one it has answered); and a login leaves the user
\* table as it was.
LoginResponse(e, p) ==
  LET d == LoginFound(Login([IdleReq EXCEPT !.route = "login", !.email = e,
                                            !.password = p]), now, 0)
  IN <<d.status, d.text, d.json, d.token>>

WrongPassword(e, p) ==
  \E u \in users : u.email = e /\ \A salt \in Salts : u.password # Hash(p, salt)

Unregistered(e) == ~\E u \in users : u.email = e

\* the responses to the logins that fail in one of the two ways
FailedLoginResponses ==
  {LoginResponse(c[1], c[2]) :
     c \in {x \in Emails \X (Passwords \cup {""}) :
              WrongPassword(x[1], x[2]) \/ Unregistered(x[1])}}

C7_Uniform ==
  /\ req.pc = "idle" =>
       /\ Cardinality(FailedLoginResponses) <= 1
       /\ \A resp \in FailedLoginResponses : resp[1] = 401 /\ resp[4] = {}
  /\ (/\ req.route = "login" /\ req.pc = "done"
      /\ req.email \in Emails /\ req.password \in Passwords \cup {""}
      /\ (WrongPassword(req.email, req.password) \/ Unregistered(req.email)))
     => <<req.status, req.text, req.json, req.token>> \in FailedLoginResponses

C7_StoreKept == (req.route = "login" \/ req'.route = "login") => users' = users

C7_SameFailure == []C7_Uniform /\ [][C7_StoreKept]_vars

C7_Witness ==
  /\ req.route = "login" /\ req.pc = "done" /\ req.status = 401
  /\ req.password \in Passwords
  /\ WrongPassword(req.email, req.password)
  /\ \E e \in Emails : Unregistered(e)

\* C8: a request carrying a token the server signed is accepted by
\* authenticateJWT when less than an hour has passed since the token was
\* issued and answered 403 from then on, whether or not POST /logout was
\* called in between; POST /logout is always answered 200; the tokens login
\* issues expire one hour after they are issued.
C8_TokenLifetime ==
  /\ (/\ IsGet /\ Len(req.ran) >= 1
      /\ Len(BearerField) = 1
      /\ BearerField[1].kind = "jwt" /\ BearerField[1].key = JWT_SECRET)
     => IF req.clockTimestamp < BearerField[1].iat + ExpiresIn
        THEN req.reqUser # {} /\ req.idx >= 2
        ELSE /\ req.reqUser = {} /\ req.pc = "done" /\ req.status = 403
             /\ req.ran = <<"authenticateJWT">>
  /\ (req.route = "logout" /\ req.pc = "done") => req.status = 200
  /\ \A k \in req.token \cup held :
       k.key = JWT_SECRET /\ k.exp = k.iat + ExpiresIn /\ k.iat <= now

\* a token still accepted a while after it was issued and after a logout
C8_Witness ==
  /\ req.route = "user" /\ req.pc = "done" /\ req.status = 200
  /\ loggedOut
  /\ req.header \in {<<Word("Bearer"), SP, k>> : k \in held}
  /\ \E k \in held : req.clockTimestamp > k.iat

\* C9: the body of a POST /register response holds no stored password hash.
C9_NoHashInBody ==
  req.route = "register" =>
    \A j \in req.json, u \in users : j.password # u.password

\* C10: a token's role is the role of the row of its user; a new row's role
\* is the role of the registration request, or "user" when the request has
\* none; rows never change; GET /admin is answered 200 only if some row has
\* role "admin".  The second part as the claim states it:
C10_StoredAsSupplied ==
  (req.route = "register" /\ req.pc = "hashing") =>
    \A u \in users' \ users :
      u.role = IF req.role = undefined THEN "user" ELSE req.role

\* and with an empty role also counted as none:
C10_StoredOrDefault ==
  (req.route = "register" /\ req.pc = "hashing") =>
    \A u \in users' \ users :
      u.role = IF req.role \in {undefined, ""} THEN "user" ELSE req.role

C10_TokenRole ==
  /\ \A k \in req.token \cup held :
       \E u \in users : u.id = k.userId /\ u.role = k.role
  /\ (req.route = "admin" /\ req.status = 200) => \E u \in users : u.role = "admin"

C10_Keep == \A u \in users : u \in users'

C10_Original == []C10_TokenRole /\ [][C10_StoredAsSupplied /\ C10_Keep]_vars

C10_RoleFromRegistration ==
  []C10_TokenRole /\ [][C10_StoredOrDefault /\ C10_Keep]_vars

C10_Witness ==
  /\ req.route = "admin" /\ req.pc = "done" /\ req.status = 200
  /\ \E u \in users : u.role = "admin"
  /\ \E u \in users : u.role = "user"
====
